---- MODULE Spec2Model ----
(***************************************************************************)
(* Model of the payment ledger of src-tauri/src/lib.rs: the schema ensure  *)
(* run on every connection open, the money rounding policy, the payment    *)
(* item validator, the atomic write of create_payment and the read         *)
(* hydration of list_payments / load_payment_by_id.                        *)
(*                                                                         *)
(* Data representation                                                     *)
(*   String        a sequence of one-character strings, so that trim()     *)
(*                 is computed and not assumed.                            *)
(*   f64           [cls, num, den]: cls = "finite" with the exact rational *)
(*                 num/den (den > 0), or "nan" / "inf" (num = sign).       *)
(*   Option<T>     [some, v].                                              *)
(*   Result<T, E>  [ok, err, val].                                         *)
(*   i64           an integer of the model; the values of the model stay   *)
(*                 far inside the 64-bit range.                            *)
(***************************************************************************)
EXTENDS Integers, Sequences, FiniteSets, TLC

VARIABLES
    db,      \* the database file products.sqlite: [tables, itemCols, payments,
             \* paymentItems, cashiers, products]; each table's rows in rowid order
    now,     \* CURRENT_TIMESTAMP of the storage engine, in seconds
    call,    \* the last invocation: the command, its payload, the storage
             \* failure that struck it, and whether open_connection had
             \* returned Ok before it
    ret,     \* what it returned
    origin,  \* history: the database file the application was started on
    ensured, \* history: some call of open_connection has returned Ok
    returned \* history: the PaymentRecords create_payment has returned

vars == <<db, now, call, ret, origin, ensured, returned>>

-----------------------------------------------------------------------------
(* Option and Result *)

Some(x) == [some |-> TRUE, v |-> x]

NoneInt == [some |-> FALSE, v |-> 0]

NoneStr == [some |-> FALSE, v |-> <<>>]

Ok(x) == [ok |-> TRUE, err |-> "", val |-> x]

Err(msg) == [ok |-> FALSE, err |-> msg, val |-> <<>>]

\* Option::unwrap_or
unwrap_or(opt, default) == IF opt.some THEN opt.v ELSE default

\* Option::or
or(a, b) == IF a.some THEN a ELSE b

-----------------------------------------------------------------------------
(* Strings *)

IsWhitespace(c) == c \in {" ", "\t", "\n"}

RECURSIVE trim_start(_)
trim_start(s) ==
    IF s = <<>> THEN <<>>
    ELSE IF IsWhitespace(Head(s)) THEN trim_start(Tail(s))
    ELSE s

RECURSIVE trim_end(_)
trim_end(s) ==
    IF s = <<>> THEN <<>>
    ELSE IF IsWhitespace(s[Len(s)]) THEN trim_end(SubSeq(s, 1, Len(s) - 1))
    ELSE s

\* str::trim
trim(s) == trim_end(trim_start(s))

-----------------------------------------------------------------------------
(* f64 *)

F(n, d) == [cls |-> "finite", num |-> n, den |-> d]

NaN == [cls |-> "nan", num |-> 0, den |-> 1]

PosInf == [cls |-> "inf", num |-> 1, den |-> 1]

NegInf == [cls |-> "inf", num |-> -1, den |-> 1]

NoneF64 == [some |-> FALSE, v |-> F(0, 1)]

\* f64::is_finite
is_finite(x) == x.cls = "finite"

\* `i as f64`
as_f64(i) == F(i, 1)

\* x <= 0.0 (false for NaN)
f64_le_zero(x) ==
    CASE x.cls = "finite" -> x.num <= 0
      [] x.cls = "inf" -> x.num < 0
      [] OTHER -> FALSE

\* a * b, for finite operands (the only ones the ledger multiplies)
f64_mul(a, b) == F(a.num * b.num, a.den * b.den)

\* f64::floor of a finite value, as an integer
f64_floor(x) == x.num \div x.den

\* f64::round of a finite value: nearest integer, halves away from zero
f64_round(x) ==
    IF x.num >= 0
    THEN (2 * x.num + x.den) \div (2 * x.den)
    ELSE -((2 * (-x.num) + x.den) \div (2 * x.den))

Max(a, b) == IF a >= b THEN a ELSE b

Min(a, b) == IF a <= b THEN a ELSE b

-----------------------------------------------------------------------------
(* Money Normalizer *)

MONEY_ROUNDING_MODE == "floor"

\* The rounding without the clamp at zero.
round_money_unclamped(mode, value) ==
    IF mode = "round" THEN f64_round(value) ELSE f64_floor(value)

\* The body of round_money, with the rounding mode it reads as a parameter.
round_money_in(mode, value) ==
    IF mode = "round"
    THEN Max(f64_round(value), 0)
    ELSE Max(f64_floor(value), 0)

round_money(value) == round_money_in(MONEY_ROUNDING_MODE, value)

-----------------------------------------------------------------------------
(* Payment Item Validator *)

\* effective_unit_price.or(price).unwrap_or(base_unit_price), with the price
\* given alone taking precedence over the explicit effective price.
resolve_effective_price_price_first(item) ==
    unwrap_or(or(item.price, item.effective_unit_price), item.base_unit_price)

\* resolved_effective_price
resolve_effective_price(item) ==
    unwrap_or(or(item.effective_unit_price, item.price), item.base_unit_price)

\* line_subtotal: the explicit one, else the rounded product.
resolve_line_subtotal(item) ==
    LET computed_subtotal ==
            round_money(f64_mul(as_f64(resolve_effective_price(item)), item.quantity))
    IN  unwrap_or(item.line_subtotal, computed_subtotal)

\* The checks with the name examined before the quantity.
item_error_name_first(item) ==
    IF trim(item.name) = <<>>
    THEN "Item name cannot be empty"
    ELSE IF ~is_finite(item.quantity) \/ f64_le_zero(item.quantity)
    THEN "Item quantity must be greater than 0"
    ELSE IF item.base_unit_price < 0
    THEN "Base unit price cannot be negative"
    ELSE IF resolve_effective_price(item) < 0
    THEN "Effective unit price cannot be negative"
    ELSE IF resolve_line_subtotal(item) < 0
    THEN "Line subtotal cannot be negative"
    ELSE IF unwrap_or(item.line_discount, 0) < 0
    THEN "Line discount cannot be negative"
    ELSE ""

\* The checks without the one on the line discount.
item_error_discount_unchecked(item) ==
    IF ~is_finite(item.quantity) \/ f64_le_zero(item.quantity)
    THEN "Item quantity must be greater than 0"
    ELSE IF trim(item.name) = <<>>
    THEN "Item name cannot be empty"
    ELSE IF item.base_unit_price < 0
    THEN "Base unit price cannot be negative"
    ELSE IF resolve_effective_price(item) < 0
    THEN "Effective unit price cannot be negative"
    ELSE IF resolve_line_subtotal(item) < 0
    THEN "Line subtotal cannot be negative"
    ELSE ""

\* The early returns of one iteration of the loop of normalize_payment_items,
\* in the order of the code: the message of the first one taken, "" if none.
item_error(item) ==
    IF ~is_finite(item.quantity) \/ f64_le_zero(item.quantity)
    THEN "Item quantity must be greater than 0"
    ELSE IF trim(item.name) = <<>>
    THEN "Item name cannot be empty"
    ELSE IF item.base_unit_price < 0
    THEN "Base unit price cannot be negative"
    ELSE IF resolve_effective_price(item) < 0
    THEN "Effective unit price cannot be negative"
    ELSE IF resolve_line_subtotal(item) < 0
    THEN "Line subtotal cannot be negative"
    ELSE IF unwrap_or(item.line_discount, 0) < 0
    THEN "Line discount cannot be negative"
    ELSE ""

\* The iteration with the rounded quantity taken as it is, and the edited
\* price kept whatever its sign.
normalize_item_unguarded(item) ==
    IF item_error(item) # "" THEN Err(item_error(item))
    ELSE Ok([product_id |-> item.product_id,
             name |-> trim(item.name),
             quantity_decimal |-> item.quantity,
             legacy_quantity |-> f64_round(item.quantity),
             base_unit_price |-> item.base_unit_price,
             edited_unit_price |-> item.edited_unit_price,
             effective_unit_price |-> resolve_effective_price(item),
             line_subtotal |-> resolve_line_subtotal(item),
             line_discount |-> unwrap_or(item.line_discount, 0)])

\* One iteration of the loop: the error, or the NormalizedPaymentItem pushed.
normalize_item(item) ==
    LET edited_price ==
            IF item.edited_unit_price.some /\ item.edited_unit_price.v >= 0
            THEN item.edited_unit_price
            ELSE NoneInt
        rounded_qty == f64_round(item.quantity)
        legacy_quantity == IF rounded_qty <= 0 THEN 1 ELSE rounded_qty
    IN  IF item_error(item) # "" THEN Err(item_error(item))
        ELSE Ok([product_id |-> item.product_id,
                 name |-> trim(item.name),
                 quantity_decimal |-> item.quantity,
                 legacy_quantity |-> legacy_quantity,
                 base_unit_price |-> item.base_unit_price,
                 edited_unit_price |-> edited_price,
                 effective_unit_price |-> resolve_effective_price(item),
                 line_subtotal |-> resolve_line_subtotal(item),
                 line_discount |-> unwrap_or(item.line_discount, 0)])

\* The `for item in items` loop: the first failing item ends it.
RECURSIVE normalize_loop(_, _)
normalize_loop(items, normalized) ==
    IF items = <<>> THEN Ok(normalized)
    ELSE LET r == normalize_item(Head(items))
         IN  IF r.ok THEN normalize_loop(Tail(items), Append(normalized, r.val))
             ELSE r

normalize_payment_items(items) ==
    IF items = <<>>
    THEN Err("Payment must contain at least one item")
    ELSE normalize_loop(items, <<>>)

\* normalize_note (and normalize_barcode, which has the same body)
normalize_note(note) ==
    IF note.some /\ trim(note.v) # <<>> THEN Some(trim(note.v)) ELSE NoneStr

-----------------------------------------------------------------------------
(* Storage faults *)

\* A storage failure (an Err of rusqlite) at one statement of a command:
\* `at` names the statement, `n` tells the statements of a loop apart.
Fault(at, n) == [at |-> at, n |-> n]

NoFault == Fault("none", 0)

SqliteError == "sqlite error"

\* What the fallible parts below return: the database they leave and whether
\* they returned Ok.
Step(d, ok) == [db |-> d, ok |-> ok]

-----------------------------------------------------------------------------
(* Schema Evolver *)

TABLES == <<"products", "payments", "payment_items", "cashiers">>

OPTIONAL_COLUMNS ==
    <<"quantity_decimal", "base_unit_price", "edited_unit_price",
      "line_subtotal", "line_discount">>

Range(s) == {s[i] : i \in DOMAIN s}

\* The table dropped and created anew: the rows it held are gone.
create_table_replacing(d, t) ==
    [d EXCEPT !.tables = @ \cup {t},
              !.payments = IF t = "payments" THEN <<>> ELSE @,
              !.paymentItems = IF t = "payment_items" THEN <<>> ELSE @,
              !.itemCols = IF t = "payment_items" THEN Range(OPTIONAL_COLUMNS) ELSE @]

\* CREATE TABLE IF NOT EXISTS: payment_items is created with the optional
\* columns, an existing table is left as it is.
create_table_if_not_exists(d, t) ==
    IF t \in d.tables THEN d
    ELSE [d EXCEPT !.tables = @ \cup {t},
                   !.itemCols = IF t = "payment_items" THEN Range(OPTIONAL_COLUMNS) ELSE @]

\* column_exists: PRAGMA table_info(payment_items)
column_exists(d, column) == column \in d.itemCols

add_column_if_missing(d, column) ==
    IF column_exists(d, column) THEN d
    ELSE [d EXCEPT !.itemCols = @ \cup {column}]

\* The four CREATE TABLE statements of initialize_schema, from the i-th on.
RECURSIVE create_tables(_, _, _)
create_tables(d, i, fault) ==
    IF i > Len(TABLES) THEN Step(d, TRUE)
    ELSE IF fault = Fault("create_table", i) THEN Step(d, FALSE)
    ELSE create_tables(create_table_if_not_exists(d, TABLES[i]), i + 1, fault)

\* The add_column_if_missing calls of ensure_payment_item_columns, from the
\* i-th on; each returns early with `?`.
RECURSIVE ensure_columns_from(_, _, _)
ensure_columns_from(d, i, fault) ==
    IF i > Len(OPTIONAL_COLUMNS) THEN Step(d, TRUE)
    ELSE IF fault = Fault("add_column", i) THEN Step(d, FALSE)
    ELSE ensure_columns_from(add_column_if_missing(d, OPTIONAL_COLUMNS[i]), i + 1, fault)

ensure_payment_item_columns(d, fault) == ensure_columns_from(d, 1, fault)

DEFAULT_CASHIER_SEED ==
    << [code |-> "linh",  name |-> "Linh",  role |-> "Truong ca", last_active |-> "08:05",
        require_pin |-> TRUE,  pin |-> "1234"],
       [code |-> "hoang", name |-> "Hoang", role |-> "Thu ngan",  last_active |-> "08:10",
        require_pin |-> FALSE, pin |-> ""],
       [code |-> "an",    name |-> "An",    role |-> "Thu ngan",  last_active |-> "Dang nghi",
        require_pin |-> TRUE,  pin |-> "5678"],
       [code |-> "vi",    name |-> "Vi",    role |-> "Thu ngan",  last_active |-> "Hom qua",
        require_pin |-> FALSE, pin |-> ""] >>

\* AUTOINCREMENT rowid of the next row of a table (no row is ever deleted).
next_id(rows) == IF rows = <<>> THEN 1 ELSE rows[Len(rows)].id + 1

cashier_row(d, index) ==
    LET seed == DEFAULT_CASHIER_SEED[index]
    IN  [id |-> next_id(d.cashiers), code |-> seed.code, name |-> seed.name,
         role |-> seed.role, last_active |-> seed.last_active,
         require_pin |-> seed.require_pin, pin |-> seed.pin,
         display_order |-> index, is_active |-> TRUE]

\* The INSERT loop of seed_cashiers_if_empty, from the index-th seed on. Every
\* INSERT is a statement of its own on the connection: the rows inserted
\* before a failing one stay.
RECURSIVE seed_from(_, _, _)
seed_from(d, index, fault) ==
    IF index > Len(DEFAULT_CASHIER_SEED) THEN Step(d, TRUE)
    ELSE IF fault = Fault("seed_insert", index) THEN Step(d, FALSE)
    ELSE seed_from([d EXCEPT !.cashiers = Append(@, cashier_row(d, index))],
                   index + 1, fault)

\* The seeding without the early return on a non-empty table.
seed_cashiers_unconditionally(d, fault) ==
    IF fault = Fault("seed_count", 0) THEN Step(d, FALSE)
    ELSE seed_from(d, 1, fault)

seed_cashiers_if_empty(d, fault) ==
    IF fault = Fault("seed_count", 0) THEN Step(d, FALSE)
    ELSE IF Len(d.cashiers) > 0 THEN Step(d, TRUE)
    ELSE seed_from(d, 1, fault)

initialize_schema(d, fault) ==
    LET created == create_tables(d, 1, fault)
        columns == ensure_payment_item_columns(created.db, fault)
    IN  IF ~created.ok THEN created
        ELSE IF ~columns.ok THEN columns
        ELSE seed_cashiers_if_empty(columns.db, fault)

\* open_connection: ensure_database and Connection::open, then the schema.
open_connection(d, fault) ==
    IF fault = Fault("open", 0) THEN Step(d, FALSE)
    ELSE initialize_schema(d, fault)

-----------------------------------------------------------------------------
(* Read Hydrator *)

\* What a command leaves and returns.
Outcome(d, r) == [db |-> d, ret |-> r]

\* The subtotal of a row that stores none, taken to be the unit price.
backfill_subtotal_unit_price(row, normalized_quantity) ==
    IF row.line_subtotal.some THEN row.line_subtotal.v
    ELSE round_money(as_f64(row.price))

\* line_subtotal.unwrap_or_else(|| round_money(price as f64 * normalized_quantity))
backfill_subtotal(row, normalized_quantity) ==
    IF row.line_subtotal.some THEN row.line_subtotal.v
    ELSE round_money(f64_mul(as_f64(row.price), normalized_quantity))

\* The row closure of fetch_payment_items: one payment_items row, as read by
\* the SELECT, to a PaymentItemRecord.
hydrate_item(row) ==
    LET legacy_quantity == row.quantity
        price == row.price
        normalized_quantity == unwrap_or(row.quantity_decimal, as_f64(legacy_quantity))
        resolved_base_price == unwrap_or(row.base_unit_price, price)
        subtotal_value == backfill_subtotal(row, normalized_quantity)
    IN  [id |-> row.id,
         product_id |-> row.product_id,
         name |-> row.name,
         quantity |-> legacy_quantity,
         price |-> price,
         quantity_decimal |-> Some(normalized_quantity),
         base_unit_price |-> resolved_base_price,
         edited_unit_price |-> row.edited_unit_price,
         effective_unit_price |-> price,
         line_subtotal |-> subtotal_value,
         line_discount |-> unwrap_or(row.line_discount, 0)]

RECURSIVE hydrate_items(_)
hydrate_items(rows) ==
    IF rows = <<>> THEN <<>>
    ELSE <<hydrate_item(Head(rows))>> \o hydrate_items(Tail(rows))

RECURSIVE Reverse(_)
Reverse(s) == IF s = <<>> THEN <<>> ELSE Append(Reverse(Tail(s)), Head(s))

\* The items of a payment selected with ORDER BY id DESC.
items_of_newest_first(d, payment_id) ==
    Reverse(SelectSeq(d.paymentItems, LAMBDA row : row.payment_id = payment_id))

\* WHERE payment_id = ?1 ORDER BY id ASC
items_of(d, payment_id) ==
    SelectSeq(d.paymentItems, LAMBDA row : row.payment_id = payment_id)

fetch_payment_items(d, payment_id, fault) ==
    IF fault = Fault("fetch_items", payment_id) THEN Err(SqliteError)
    ELSE Ok(hydrate_items(items_of(d, payment_id)))

fetch_payment_row(d, id, fault) ==
    LET found == SelectSeq(d.payments, LAMBDA row : row.id = id)
    IN  IF fault = Fault("fetch_row", id) THEN Err(SqliteError)
        ELSE IF found = <<>> THEN Err("Query returned no rows")
        ELSE Ok(found[1])

hydrate_payment_record(d, row, fault) ==
    LET items == fetch_payment_items(d, row.id, fault)
    IN  IF ~items.ok THEN items
        ELSE Ok([id |-> row.id,
                 invoice_number |-> row.invoice_number,
                 cashier_name |-> row.cashier_name,
                 subtotal |-> row.subtotal,
                 tax |-> row.tax,
                 total |-> row.total,
                 discount |-> row.discount,
                 paid_cash |-> row.paid_cash,
                 change_due |-> row.change_due,
                 note |-> row.note,
                 created_at |-> row.created_at,
                 items |-> items.val])

load_payment_by_id(d, id, fault) ==
    LET row == fetch_payment_row(d, id, fault)
    IN  IF ~row.ok THEN row ELSE hydrate_payment_record(d, row.val, fault)

\* LIMIT 200
LIST_LIMIT == 200

\* datetime(created_at): created_at is written by CURRENT_TIMESTAMP, whole
\* seconds, and datetime() keeps whole seconds.
datetime(created_at) == created_at

\* The row order of ORDER BY datetime(created_at) DESC. Rows of the same
\* second are in an order SQL leaves open: `tie` is the one the engine takes.
sorts_before(a, b, tie) ==
    \/ datetime(a.created_at) > datetime(b.created_at)
    \/ /\ datetime(a.created_at) = datetime(b.created_at)
       /\ IF tie = "rowid_asc" THEN a.id < b.id ELSE a.id > b.id

insert_sorted(sorted, row, tie) ==
    LET ahead == Cardinality({i \in DOMAIN sorted : sorts_before(sorted[i], row, tie)})
    IN  SubSeq(sorted, 1, ahead) \o <<row>> \o SubSeq(sorted, ahead + 1, Len(sorted))

RECURSIVE order_by_created_at_desc(_, _)
order_by_created_at_desc(rows, tie) ==
    IF rows = <<>> THEN <<>>
    ELSE insert_sorted(order_by_created_at_desc(SubSeq(rows, 1, Len(rows) - 1), tie),
                       rows[Len(rows)], tie)

list_payment_rows(d, fault, tie) ==
    LET ordered == order_by_created_at_desc(d.payments, tie)
    IN  IF fault = Fault("list_rows", 0) THEN Err(SqliteError)
        ELSE Ok(SubSeq(ordered, 1, Min(Len(ordered), LIST_LIMIT)))

\* rows.into_iter().map(hydrate_payment_record).collect(): the first Err ends it.
RECURSIVE hydrate_all(_, _, _, _)
hydrate_all(d, rows, fault, records) ==
    IF rows = <<>> THEN Ok(records)
    ELSE LET r == hydrate_payment_record(d, Head(rows), fault)
         IN  IF r.ok THEN hydrate_all(d, Tail(rows), fault, Append(records, r.val))
             ELSE r

list_payments(d, fault, tie) ==
    LET conn == open_connection(d, fault)
        rows == list_payment_rows(conn.db, fault, tie)
    IN  IF ~conn.ok THEN Outcome(conn.db, Err(SqliteError))
        ELSE IF ~rows.ok THEN Outcome(conn.db, rows)
        ELSE Outcome(conn.db, hydrate_all(conn.db, rows.val, fault, <<>>))

-----------------------------------------------------------------------------
(* Payment Ledger *)

\* What the write of create_payment returns: the database it leaves, whether
\* it committed, and the rowid of the header.
Written(d, ok, payment_id) == [db |-> d, ok |-> ok, payment_id |-> payment_id]

\* INSERT INTO payments (...): id and created_at are the column defaults.
insert_header(d, header, t) ==
    [d EXCEPT !.payments = Append(@,
        [id |-> next_id(d.payments),
         invoice_number |-> header.invoice_number,
         cashier_name |-> header.cashier_name,
         subtotal |-> header.subtotal,
         tax |-> header.tax,
         total |-> header.total,
         discount |-> header.discount,
         paid_cash |-> header.paid_cash,
         change_due |-> header.change_due,
         note |-> header.note,
         created_at |-> t])]

\* INSERT INTO payment_items (...) of one normalized item.
insert_item(d, payment_id, item) ==
    [d EXCEPT !.paymentItems = Append(@,
        [id |-> next_id(d.paymentItems),
         payment_id |-> payment_id,
         product_id |-> item.product_id,
         name |-> item.name,
         quantity |-> item.legacy_quantity,
         price |-> item.effective_unit_price,
         quantity_decimal |-> Some(item.quantity_decimal),
         base_unit_price |-> Some(item.base_unit_price),
         edited_unit_price |-> item.edited_unit_price,
         line_subtotal |-> Some(item.line_subtotal),
         line_discount |-> Some(item.line_discount)])]

\* The `for item in normalized_items` loop, from the i-th item on.
RECURSIVE insert_items(_, _, _, _, _)
insert_items(d, payment_id, items, i, fault) ==
    IF i > Len(items) THEN Step(d, TRUE)
    ELSE IF fault = Fault("insert_item", i) THEN Step(d, FALSE)
    ELSE insert_items(insert_item(d, payment_id, items[i]), payment_id, items, i + 1, fault)

\* The statements of the write run on the connection itself, outside any
\* transaction: what was inserted before a failure stays.
write_payment_autocommit(d, header, items, fault, t) ==
    LET header_done == insert_header(d, header, t)
        payment_id == header_done.payments[Len(header_done.payments)].id
        items_done == insert_items(header_done, payment_id, items, 1, fault)
    IN  IF fault = Fault("begin", 0) THEN Written(d, FALSE, 0)
        ELSE IF fault = Fault("insert_header", 0) THEN Written(d, FALSE, 0)
        ELSE IF ~items_done.ok THEN Written(items_done.db, FALSE, 0)
        ELSE IF fault = Fault("commit", 0) THEN Written(items_done.db, FALSE, 0)
        ELSE Written(items_done.db, TRUE, payment_id)

\* The transaction of create_payment, from conn.transaction() to tx.commit().
\* A `?` that returns before the commit drops tx, and the drop rolls back:
\* the database is the one the transaction began with.
write_payment(d, header, items, fault, t) ==
    LET header_done == insert_header(d, header, t)
        payment_id == header_done.payments[Len(header_done.payments)].id
        items_done == insert_items(header_done, payment_id, items, 1, fault)
    IN  IF fault = Fault("begin", 0) THEN Written(d, FALSE, 0)
        ELSE IF fault = Fault("insert_header", 0) THEN Written(d, FALSE, 0)
        ELSE IF ~items_done.ok THEN Written(d, FALSE, 0)
        ELSE IF fault = Fault("commit", 0) THEN Written(d, FALSE, 0)
        ELSE Written(items_done.db, TRUE, payment_id)

\* The validation with the header fields examined before the items.
validate_payload_header_first(payload) ==
    IF trim(payload.invoice_number) = <<>> THEN Err("Invoice number is required")
    ELSE IF trim(payload.cashier_name) = <<>> THEN Err("Cashier name is required")
    ELSE normalize_payment_items(payload.items)

\* The validation of create_payment, before conn.transaction(): the Err it
\* returns with, or the normalized items.
validate_payload(payload) ==
    LET normalized_items == normalize_payment_items(payload.items)
    IN  IF ~normalized_items.ok THEN normalized_items
        ELSE IF trim(payload.invoice_number) = <<>> THEN Err("Invoice number is required")
        ELSE IF trim(payload.cashier_name) = <<>> THEN Err("Cashier name is required")
        ELSE normalized_items

create_payment(d, payload, fault, t) ==
    LET conn == open_connection(d, fault)
        validated == validate_payload(payload)
        header == [invoice_number |-> trim(payload.invoice_number),
                   cashier_name |-> trim(payload.cashier_name),
                   subtotal |-> payload.subtotal,
                   tax |-> payload.tax,
                   total |-> payload.total,
                   discount |-> payload.discount,
                   paid_cash |-> payload.paid_cash,
                   change_due |-> payload.change_due,
                   note |-> normalize_note(payload.note)]
        written == write_payment(conn.db, header, validated.val, fault, t)
    IN  IF ~conn.ok THEN Outcome(conn.db, Err(SqliteError))
        ELSE IF ~validated.ok THEN Outcome(conn.db, validated)
        ELSE IF ~written.ok THEN Outcome(written.db, Err(SqliteError))
        ELSE Outcome(written.db,
                     load_payment_by_id(written.db, written.payment_id, fault))

-----------------------------------------------------------------------------
(* Adjacent read commands: they open a connection, hence ensure the schema *)

\* ORDER BY display_order ASC (the rows of the model have distinct
\* display_order values, so no second key decides).
insert_by_display_order(sorted, row) ==
    LET ahead == Cardinality({i \in DOMAIN sorted : sorted[i].display_order <= row.display_order})
    IN  SubSeq(sorted, 1, ahead) \o <<row>> \o SubSeq(sorted, ahead + 1, Len(sorted))

RECURSIVE order_by_display_order(_)
order_by_display_order(rows) ==
    IF rows = <<>> THEN <<>>
    ELSE insert_by_display_order(order_by_display_order(SubSeq(rows, 1, Len(rows) - 1)),
                                 rows[Len(rows)])

list_products(d, fault) ==
    LET conn == open_connection(d, fault)
    IN  IF ~conn.ok THEN Outcome(conn.db, Err(SqliteError))
        ELSE IF fault = Fault("select_products", 0) THEN Outcome(conn.db, Err(SqliteError))
        ELSE Outcome(conn.db, Ok(order_by_display_order(conn.db.products)))

list_cashiers(d, fault) ==
    LET conn == open_connection(d, fault)
        active == SelectSeq(conn.db.cashiers, LAMBDA row : row.is_active)
    IN  IF ~conn.ok THEN Outcome(conn.db, Err(SqliteError))
        ELSE IF fault = Fault("select_cashiers", 0) THEN Outcome(conn.db, Err(SqliteError))
        ELSE Outcome(conn.db, Ok(order_by_display_order(active)))

-----------------------------------------------------------------------------
(* Adjacent write commands: the products *)

normalize_barcode(barcode) ==
    IF barcode.some /\ trim(barcode.v) # <<>> THEN Some(trim(barcode.v)) ELSE NoneStr

bool_to_sql(value) == IF value THEN 1 ELSE 0

parse_product_row(row) ==
    [id |-> row.id, name |-> row.name, price |-> row.price, barcode |-> row.barcode,
     visible |-> row.visible # 0, quick_display |-> row.quick_display # 0,
     display_order |-> row.display_order]

fetch_product_by_id(d, id, fault) ==
    LET found == SelectSeq(d.products, LAMBDA row : row.id = id)
    IN  IF fault = Fault("fetch_product", 0) THEN Err(SqliteError)
        ELSE IF found = <<>> THEN Err("Query returned no rows")
        ELSE Ok(parse_product_row(found[1]))

\* INSERT INTO products (...): id and created_at are the column defaults.
\* The statement runs on the connection: once done, it stays.
create_product(d, payload, fault, t) ==
    LET conn == open_connection(d, fault)
        id == next_id(conn.db.products)
        inserted ==
            [conn.db EXCEPT !.products = Append(@,
                [id |-> id,
                 name |-> trim(payload.name),
                 price |-> payload.price,
                 barcode |-> normalize_barcode(payload.barcode),
                 visible |-> bool_to_sql(payload.visible),
                 quick_display |-> bool_to_sql(payload.quick_display),
                 display_order |-> payload.display_order,
                 created_at |-> t])]
    IN  IF ~conn.ok THEN Outcome(conn.db, Err(SqliteError))
        ELSE IF fault = Fault("insert_product", 0) THEN Outcome(conn.db, Err(SqliteError))
        ELSE Outcome(inserted, fetch_product_by_id(inserted, id, fault))

\* UPDATE products SET ... WHERE id = ?7
update_product(d, payload, fault) ==
    LET conn == open_connection(d, fault)
        affected == Cardinality({i \in DOMAIN conn.db.products :
                                    conn.db.products[i].id = payload.id})
        updated ==
            [conn.db EXCEPT !.products =
                [i \in DOMAIN @ |->
                    IF @[i].id = payload.id
                    THEN [@[i] EXCEPT !.name = trim(payload.name),
                                      !.price = payload.price,
                                      !.barcode = normalize_barcode(payload.barcode),
                                      !.visible = bool_to_sql(payload.visible),
                                      !.quick_display = bool_to_sql(payload.quick_display),
                                      !.display_order = payload.display_order]
                    ELSE @[i]]]
    IN  IF ~conn.ok THEN Outcome(conn.db, Err(SqliteError))
        ELSE IF fault = Fault("update_product", 0) THEN Outcome(conn.db, Err(SqliteError))
        ELSE IF affected = 0 THEN Outcome(updated, Err("Product not found"))
        ELSE Outcome(updated, fetch_product_by_id(updated, payload.id, fault))

-----------------------------------------------------------------------------
(* Bounds of the model *)

\* create_payment is invoked while the payments table has fewer rows.
MaxPayments == 2

\* The clock stops advancing at this second.
MaxClock == 1

\* create_product is invoked while the products table has fewer rows.
MaxProducts == 1

\* Legacy rows of the hydration check: quantity 0 .. MaxLegacyQuantity, price
\* -MaxStoredPrice .. MaxStoredPrice.
MaxLegacyQuantity == 6

MaxStoredPrice == 5

\* Arguments of the rounding check: n/d with |n| <= MaxNumerator and
\* 1 <= d <= MaxDenominator.
MaxNumerator == 12

MaxDenominator == 4

-----------------------------------------------------------------------------
(* Inputs *)

Coffee == <<"C", "o", "f", "f", "e", "e">>

\* An item given only name, quantity and baseUnitPrice.
ItemInput(name, quantity, base_unit_price) ==
    [product_id |-> NoneInt, name |-> name, quantity |-> quantity,
     base_unit_price |-> base_unit_price, edited_unit_price |-> NoneInt,
     effective_unit_price |-> NoneInt, price |-> NoneInt,
     line_subtotal |-> NoneInt, line_discount |-> NoneInt]

\* {name: "Coffee", quantity: 2, baseUnitPrice: 50}
CoffeeItem == ItemInput(Coffee, F(2, 1), 50)

\* Every optional field given: quantity 0.25, a negative editedUnitPrice.
OverrideItem ==
    [ItemInput(<<" ", "T", "e", "a", " ">>, F(1, 4), 50) EXCEPT
        !.product_id = Some(7), !.edited_unit_price = Some(-1),
        !.effective_unit_price = Some(7), !.price = Some(9),
        !.line_subtotal = Some(5), !.line_discount = Some(1)]

\* price given, effectiveUnitPrice not: quantity 2.5.
PriceOnlyItem == [ItemInput(<<"M", "i", "l", "k">>, F(5, 2), 50) EXCEPT !.price = Some(9)]

ValidItems == {CoffeeItem, OverrideItem, PriceOnlyItem}

\* One item for each rule of the validator, violating that rule first.
InvalidItems ==
    { ItemInput(Coffee, NaN, 50),
      [ItemInput(<<" ">>, F(0, 1), -1) EXCEPT !.line_discount = Some(-1)],
      [ItemInput(<<" ", "\t">>, F(1, 1), -1) EXCEPT !.price = Some(-1)],
      [ItemInput(Coffee, F(1, 1), -1) EXCEPT !.effective_unit_price = Some(-1)],
      [ItemInput(Coffee, F(1, 1), 50) EXCEPT !.effective_unit_price = Some(-1),
                                            !.price = Some(9), !.line_subtotal = Some(-1)],
      [ItemInput(Coffee, F(1, 1), 50) EXCEPT !.line_subtotal = Some(-1),
                                            !.line_discount = Some(-1)],
      [ItemInput(Coffee, F(1, 1), 50) EXCEPT !.line_discount = Some(-1)] }

INV1 == <<"I", "N", "V", "-", "1">>

Linh == <<"L", "i", "n", "h">>

\* The payload of the example of the specification, with `items`.
Payload(invoice_number, cashier_name, note, items) ==
    [invoice_number |-> invoice_number, cashier_name |-> cashier_name,
     subtotal |-> 100, tax |-> 10, total |-> 110, discount |-> 0,
     paid_cash |-> 200, change_due |-> 90, note |-> note, items |-> items]

ExamplePayload == Payload(INV1, Linh, NoneStr, <<CoffeeItem>>)

ValidPayloads ==
    { ExamplePayload,
      Payload(<<" ">> \o INV1 \o <<" ">>, <<"\t">> \o Linh, Some(<<" ">>),
              <<OverrideItem, PriceOnlyItem>>),
      Payload(INV1, Linh, Some(<<" ", "n", " ">>), <<PriceOnlyItem, CoffeeItem>>) }

InvalidPayloads ==
    { Payload(INV1, Linh, NoneStr, <<>>),
      Payload(<<" ">>, Linh, NoneStr, <<>>),
      Payload(<<" ">>, Linh, NoneStr, <<CoffeeItem>>),
      Payload(INV1, <<>>, NoneStr, <<CoffeeItem>>),
      Payload(<<>>, <<" ">>, NoneStr, <<CoffeeItem, OverrideItem>>) }
    \cup { Payload(INV1, Linh, NoneStr, <<CoffeeItem, bad>>) : bad \in InvalidItems }
    \cup { Payload(<<" ">>, <<" ">>, NoneStr, <<bad>>) :
              bad \in {ItemInput(Coffee, NaN, 50), ItemInput(Coffee, F(1, 1), -1)} }

Payloads == ValidPayloads \cup InvalidPayloads

NoPayload == Payload(<<>>, <<>>, NoneStr, <<>>)

SchemaFaults ==
    {Fault("open", 0), Fault("seed_count", 0)}
    \cup {Fault("create_table", i) : i \in DOMAIN TABLES}
    \cup {Fault("add_column", i) : i \in DOMAIN OPTIONAL_COLUMNS}
    \cup {Fault("seed_insert", i) : i \in DOMAIN DEFAULT_CASHIER_SEED}

\* The storage failures of create_payment the ledger is explored under: one
\* at each statement of the write and of the read-back, which a payload that
\* passes the validation reaches, and three of those of open_connection (all
\* of these are explored under SpecSchema).
CreateFaults(payload) ==
    {NoFault, Fault("open", 0)}
    \cup (IF payload \in ValidPayloads
          THEN {Fault("create_table", 3), Fault("seed_insert", 3),
                Fault("begin", 0), Fault("insert_header", 0), Fault("commit", 0),
                Fault("fetch_row", next_id(db.payments)),
                Fault("fetch_items", next_id(db.payments))}
               \cup {Fault("insert_item", i) : i \in DOMAIN payload.items}
          ELSE {})

ListFaults ==
    {NoFault, Fault("open", 0), Fault("list_rows", 0)}
    \cup {Fault("fetch_items", row.id) : row \in Range(db.payments)}

TieOrders == {"rowid_asc", "rowid_desc"}

-----------------------------------------------------------------------------
(* Databases the application is started on *)

\* The empty file ensure_database creates when no template is found.
EmptyDb ==
    [tables |-> {}, itemCols |-> {}, payments |-> <<>>, paymentItems |-> <<>>,
     cashiers |-> <<>>, products |-> <<>>]

LegacyItemRow(id, payment_id, quantity, price) ==
    [id |-> id, payment_id |-> payment_id, product_id |-> NoneInt,
     name |-> <<"O", "l", "d">>, quantity |-> quantity, price |-> price,
     quantity_decimal |-> NoneF64, base_unit_price |-> NoneInt,
     edited_unit_price |-> NoneInt, line_subtotal |-> NoneInt,
     line_discount |-> NoneInt]

LegacyPaymentRow ==
    [id |-> 1, invoice_number |-> <<"I", "N", "V", "-", "0">>, cashier_name |-> Linh,
     subtotal |-> 130, tax |-> 0, total |-> 130, discount |-> 0, paid_cash |-> 130,
     change_due |-> 0, note |-> NoneStr, created_at |-> 0]

OwnCashierRow ==
    [id |-> 1, code |-> "mai", name |-> "Mai", role |-> "Thu ngan", last_active |-> "",
     require_pin |-> FALSE, pin |-> "", display_order |-> 1, is_active |-> TRUE]

\* A database written before the optional columns existed: payment_items has
\* the columns in `cols` only, and the rows hold nothing in the others.
LegacyDb(cols, withRows, withCashier) ==
    [tables |-> Range(TABLES), itemCols |-> cols,
     payments |-> IF withRows THEN <<LegacyPaymentRow>> ELSE <<>>,
     paymentItems |-> IF withRows
                      THEN <<LegacyItemRow(1, 1, 2, 50), LegacyItemRow(2, 1, 3, 10)>>
                      ELSE <<>>,
     cashiers |-> IF withCashier THEN <<OwnCashierRow>> ELSE <<>>,
     products |-> <<>>]

-----------------------------------------------------------------------------
(* The ledger: the commands on payments, and the clock *)

Pending == [ok |-> FALSE, err |-> "pending", val |-> <<>>]

Call(op, payload, fault, tie) ==
    [op |-> op, payload |-> payload, fault |-> fault, tie |-> tie, again |-> ensured]

\* The fault of a call as `call` records it: the one that struck, if any.
struck(fault, r) == IF r = Err(SqliteError) THEN fault ELSE NoFault

\* open_connection has returned Ok, in this call or in an earlier one.
Opened(fault) == ensured \/ open_connection(db, fault).ok

Init ==
    /\ db \in {EmptyDb, LegacyDb({}, TRUE, TRUE)}
    /\ origin = db
    /\ ensured = FALSE
    /\ now = 0
    /\ call = Call("start", NoPayload, NoFault, "")
    /\ ret = Pending
    /\ returned = {}

\* create_payment; `recorded` tells whether the history of the returned
\* records is kept.
CreatePaymentCall(recorded) ==
    /\ Len(db.payments) < MaxPayments
    /\ \E payload \in Payloads :
         \E fault \in CreateFaults(payload) :
            LET out == create_payment(db, payload, fault, now)
            IN  /\ db' = out.db
                /\ call' = Call("create_payment", payload, struck(fault, out.ret), "")
                /\ ret' = out.ret
                /\ ensured' = Opened(fault)
                /\ returned' = IF recorded /\ out.ret.ok
                               THEN returned \cup {out.ret.val}
                               ELSE returned
    /\ UNCHANGED <<now, origin>>

CreatePayment == CreatePaymentCall(FALSE)

ListPayments ==
    /\ \E fault \in ListFaults, tie \in TieOrders :
            LET out == list_payments(db, fault, tie)
            IN  /\ db' = out.db
                /\ call' = Call("list_payments", NoPayload, struck(fault, out.ret), tie)
                /\ ret' = out.ret
                /\ ensured' = Opened(fault)
    /\ UNCHANGED <<now, origin, returned>>

Tick ==
    /\ now < MaxClock
    /\ now' = now + 1
    /\ UNCHANGED <<db, call, ret, origin, ensured, returned>>

Next == CreatePayment \/ ListPayments \/ Tick

Spec == Init /\ [][Next]_vars

-----------------------------------------------------------------------------
(* The ledger with the history of what create_payment returned, the commands
   invoked within one second of the clock *)

CreatePaymentRecorded == CreatePaymentCall(TRUE)

NextRecorded == CreatePaymentRecorded \/ ListPayments

SpecRecorded == Init /\ [][NextRecorded]_vars

-----------------------------------------------------------------------------
(* The schema ensure alone: the read commands on every database file *)

Subsets(s) == SUBSET s

InitSchema ==
    /\ db \in {EmptyDb}
           \cup {LegacyDb(cols, withRows, withCashier) :
                    cols \in Subsets(Range(OPTIONAL_COLUMNS)),
                    withRows \in BOOLEAN, withCashier \in BOOLEAN}
    /\ origin = db
    /\ ensured = FALSE
    /\ now = 0
    /\ call = Call("start", NoPayload, NoFault, "")
    /\ ret = Pending
    /\ returned = {}

ListProducts ==
    /\ \E fault \in {NoFault, Fault("open", 0), Fault("select_products", 0)} :
            LET out == list_products(db, fault)
            IN  /\ db' = out.db
                /\ call' = Call("list_products", NoPayload, struck(fault, out.ret), "")
                /\ ret' = out.ret
                /\ ensured' = Opened(fault)
    /\ UNCHANGED <<now, origin, returned>>

ListCashiers ==
    /\ \E fault \in {NoFault, Fault("select_cashiers", 0)} \cup SchemaFaults :
            LET out == list_cashiers(db, fault)
            IN  /\ db' = out.db
                /\ call' = Call("list_cashiers", NoPayload, struck(fault, out.ret), "")
                /\ ret' = out.ret
                /\ ensured' = Opened(fault)
    /\ UNCHANGED <<now, origin, returned>>

NextSchema == ListProducts \/ ListCashiers

SpecSchema == InitSchema /\ [][NextSchema]_vars

-----------------------------------------------------------------------------
(* Every command: the ledger, the products and the cashiers, all invoked
   within one second of the clock *)

Tea == <<"T", "e", "a">>

\* A new product is put last in the display order.
CreateProductPayloads ==
    { [name |-> <<" ">> \o Tea, price |-> 30, barcode |-> Some(<<" ">>), visible |-> TRUE,
       quick_display |-> FALSE, display_order |-> Len(db.products) + 1] }

\* An update of the price and the barcode of product `id`, which may not
\* exist, at its place in the display order.
UpdateProductPayloads ==
    { [id |-> id, name |-> Tea, price |-> 35, barcode |-> Some(<<"8", "9">>),
       visible |-> FALSE, quick_display |-> TRUE, display_order |-> id] :
         id \in 1 .. MaxProducts + 1 }

ProductFaults ==
    {NoFault, Fault("open", 0), Fault("insert_product", 0),
     Fault("update_product", 0), Fault("fetch_product", 0)}

\* The database of a shop that has sold before the optional columns existed.
InitAllCommands ==
    /\ db = LegacyDb({}, TRUE, TRUE)
    /\ origin = db
    /\ ensured = FALSE
    /\ now = 0
    /\ call = Call("start", NoPayload, NoFault, "")
    /\ ret = Pending
    /\ returned = {}

CreateProduct ==
    /\ Len(db.products) < MaxProducts
    /\ \E payload \in CreateProductPayloads, fault \in ProductFaults :
            LET out == create_product(db, payload, fault, now)
            IN  /\ db' = out.db
                /\ call' = Call("create_product", NoPayload, struck(fault, out.ret), "")
                /\ ret' = out.ret
                /\ ensured' = Opened(fault)
    /\ UNCHANGED <<now, origin, returned>>

UpdateProduct ==
    /\ \E payload \in UpdateProductPayloads, fault \in ProductFaults :
            LET out == update_product(db, payload, fault)
            IN  /\ db' = out.db
                /\ call' = Call("update_product", NoPayload, struck(fault, out.ret), "")
                /\ ret' = out.ret
                /\ ensured' = Opened(fault)
    /\ UNCHANGED <<now, origin, returned>>

NextAllCommands ==
    \/ CreatePayment
    \/ ListPayments
    \/ ListProducts
    \/ ListCashiers
    \/ CreateProduct
    \/ UpdateProduct

SpecAllCommands == InitAllCommands /\ [][NextAllCommands]_vars

-----------------------------------------------------------------------------
(* The read hydration of legacy rows: list_payments on a database holding a
   row written before the optional columns existed and its populated twin *)

LegacyQuantities == 0 .. MaxLegacyQuantity

StoredPrices == (0 - MaxStoredPrice) .. MaxStoredPrice

\* Payment 1 owns a row with the optional columns NULL, payment 2 a row with
\* the same legacy quantity q and price p and the optional columns populated
\* from them.
TwinDb(q, p) ==
    [tables |-> Range(TABLES), itemCols |-> Range(OPTIONAL_COLUMNS),
     payments |-> <<LegacyPaymentRow, [LegacyPaymentRow EXCEPT !.id = 2]>>,
     paymentItems |->
        << LegacyItemRow(1, 1, q, p),
           [LegacyItemRow(2, 2, q, p) EXCEPT
               !.quantity_decimal = Some(F(q, 1)),
               !.base_unit_price = Some(p),
               !.line_subtotal = Some(IF p * q < 0 THEN 0 ELSE p * q),
               !.line_discount = Some(0)] >>,
     cashiers |-> <<OwnCashierRow>>, products |-> <<>>]

InitHydrate ==
    /\ db \in {TwinDb(q, p) : q \in LegacyQuantities, p \in StoredPrices}
    /\ origin = db
    /\ ensured = FALSE
    /\ now = 0
    /\ call = Call("start", NoPayload, NoFault, "")
    /\ ret = Pending
    /\ returned = {}

NextHydrate == ListPayments

SpecHydrate == InitHydrate /\ [][NextHydrate]_vars

-----------------------------------------------------------------------------
(* The item validator alone *)

Quantities == {F(2, 1), F(1, 4), F(5, 2), F(0, 1), F(-1, 2), NaN, PosInf, NegInf}

Names == {Coffee, <<" ", "C", "\t">>, <<" ", " ">>, <<>>}

BasePrices == {-1, 0, 50}

OptionalAmounts == {NoneInt, Some(-1), Some(7)}

AllItems ==
    { [product_id |-> NoneInt, name |-> name, quantity |-> quantity,
       base_unit_price |-> base, edited_unit_price |-> edited,
       effective_unit_price |-> effective, price |-> price,
       line_subtotal |-> subtotal, line_discount |-> line_discount] :
         name \in Names, quantity \in Quantities, base \in BasePrices,
         edited \in {NoneInt, Some(-1)}, effective \in OptionalAmounts,
         price \in {NoneInt, Some(-2), Some(9)}, subtotal \in OptionalAmounts,
         line_discount \in OptionalAmounts }

ListedItems == ValidItems \cup InvalidItems

ItemLists ==
    {<<>>} \cup {<<item>> : item \in AllItems}
           \cup {<<a, b>> : a \in ListedItems, b \in ListedItems}

InitItems ==
    /\ db = EmptyDb
    /\ origin = db
    /\ ensured = FALSE
    /\ now = 0
    /\ call \in {Call("normalize_payment_items", Payload(INV1, Linh, NoneStr, items),
                      NoFault, "") : items \in ItemLists}
    /\ ret = Pending
    /\ returned = {}

NormalizePaymentItems ==
    /\ call.op = "normalize_payment_items"
    /\ ret = Pending
    /\ ret' = normalize_payment_items(call.payload.items)
    /\ UNCHANGED <<db, now, call, origin, ensured, returned>>

NextItems == NormalizePaymentItems

SpecItems == InitItems /\ [][NextItems]_vars

-----------------------------------------------------------------------------
(* The first sale on a new database: create_payment on one item, as the
   first command *)

SaleQuantities == {F(1, 4), F(1, 2), F(7, 4), F(2, 1), F(5, 2), F(0, 1), NaN}

SaleItems ==
    { [product_id |-> NoneInt, name |-> Coffee, quantity |-> quantity,
       base_unit_price |-> base, edited_unit_price |-> edited,
       effective_unit_price |-> effective, price |-> price,
       line_subtotal |-> subtotal, line_discount |-> line_discount] :
         quantity \in SaleQuantities, base \in BasePrices,
         edited \in OptionalAmounts \cup {Some(0)}, effective \in OptionalAmounts,
         price \in OptionalAmounts, subtotal \in OptionalAmounts,
         line_discount \in OptionalAmounts }

InitFirstSale ==
    /\ db = EmptyDb
    /\ origin = db
    /\ ensured = FALSE
    /\ now = 0
    /\ call = Call("start", NoPayload, NoFault, "")
    /\ ret = Pending
    /\ returned = {}

FirstSale ==
    /\ call.op = "start"
    /\ \E item \in SaleItems :
            LET payload == Payload(INV1, Linh, NoneStr, <<item>>)
                out == create_payment(db, payload, NoFault, now)
            IN  /\ db' = out.db
                /\ call' = Call("create_payment", payload, NoFault, "")
                /\ ret' = out.ret
                /\ ensured' = Opened(NoFault)
    /\ UNCHANGED <<now, origin, returned>>

NextFirstSale == FirstSale

SpecFirstSale == InitFirstSale /\ [][NextFirstSale]_vars

-----------------------------------------------------------------------------
(* The money normalizer alone *)

MoneyValues == {F(n, d) : n \in (0 - MaxNumerator) .. MaxNumerator, d \in 1 .. MaxDenominator}

InitMoney ==
    /\ db = EmptyDb
    /\ origin = db
    /\ ensured = FALSE
    /\ now = 0
    /\ call \in {[op |-> "round_money", mode |-> "", value |-> x] : x \in MoneyValues}
    /\ ret = Pending
    /\ returned = {}

\* round_money as built: the mode is the constant.
RoundMoney ==
    /\ call.mode = ""
    /\ call' = [call EXCEPT !.mode = MONEY_ROUNDING_MODE]
    /\ ret' = Ok(round_money(call.value))
    /\ UNCHANGED <<db, now, origin, ensured, returned>>

\* round_money with the constant set to the alternate policy.
RoundMoneyNearest ==
    /\ call.mode = ""
    /\ call' = [call EXCEPT !.mode = "round"]
    /\ ret' = Ok(round_money_in("round", call.value))
    /\ UNCHANGED <<db, now, origin, ensured, returned>>

NextMoney == RoundMoney \/ RoundMoneyNearest

SpecMoney == InitMoney /\ [][NextMoney]_vars

-----------------------------------------------------------------------------
(* What the claims speak of, stated apart from the code *)

IsBlank(s) == \A i \in DOMAIN s : s[i] \in {" ", "\t", "\n"}

\* The price charged: explicit effectiveUnitPrice, else price, else baseUnitPrice.
ResolvedPrice(item) ==
    IF item.effective_unit_price.some THEN item.effective_unit_price.v
    ELSE IF item.price.some THEN item.price.v
    ELSE item.base_unit_price

\* max(0, floor(amount * quantity)) for a finite quantity.
NormalizedProduct(amount, quantity) ==
    IF amount * quantity.num < 0 THEN 0
    ELSE CHOOSE k \in 0 .. amount * quantity.num :
            k * quantity.den <= amount * quantity.num
            /\ amount * quantity.num < (k + 1) * quantity.den

LineSubtotalOf(item) ==
    IF item.line_subtotal.some THEN item.line_subtotal.v
    ELSE NormalizedProduct(ResolvedPrice(item), item.quantity)

\* The rules of the item validator, in their order, with their messages.
RuleMessages ==
    << "Item quantity must be greater than 0",
       "Item name cannot be empty",
       "Base unit price cannot be negative",
       "Effective unit price cannot be negative",
       "Line subtotal cannot be negative",
       "Line discount cannot be negative" >>

ViolatesRule(item, rule) ==
    CASE rule = 1 -> ~(item.quantity.cls = "finite" /\ item.quantity.num > 0)
      [] rule = 2 -> IsBlank(item.name)
      [] rule = 3 -> item.base_unit_price < 0
      [] rule = 4 -> ResolvedPrice(item) < 0
      [] rule = 5 -> item.quantity.cls = "finite" /\ LineSubtotalOf(item) < 0
      [] rule = 6 -> item.line_discount.some /\ item.line_discount.v < 0

ViolatedRules(item) == {rule \in DOMAIN RuleMessages : ViolatesRule(item, rule)}

Lowest(set) == CHOOSE x \in set : \A y \in set : x <= y

\* The message the validator owes a list: that of the earliest violated rule
\* of the first violating item, "" for a list it accepts.
ExpectedItemError(items) ==
    LET violating == {i \in DOMAIN items : ViolatedRules(items[i]) # {}}
    IN  IF items = <<>> THEN "Payment must contain at least one item"
        ELSE IF violating = {} THEN ""
        ELSE RuleMessages[Lowest(ViolatedRules(items[Lowest(violating)]))]

IsPrefix(a, b) == Len(a) <= Len(b) /\ SubSeq(b, 1, Len(a)) = a

\* A step leaves the rows of payments and payment_items as they were.
RowsUnchanged ==
    /\ db'.payments = db.payments
    /\ db'.paymentItems = db.paymentItems

\* A step of create_payment appends one header and one item row for every
\* item of the payload, each referencing that header, and nothing else.
WholePaymentAdded ==
    LET n == Len(call'.payload.items)
        before == Len(db.paymentItems)
        header == db'.payments[Len(db'.payments)]
    IN  /\ call'.op = "create_payment"
        /\ n >= 1
        /\ Len(db'.payments) = Len(db.payments) + 1
        /\ IsPrefix(db.payments, db'.payments)
        /\ \A row \in Range(db.payments) : row.id # header.id
        /\ Len(db'.paymentItems) = before + n
        /\ IsPrefix(db.paymentItems, db'.paymentItems)
        /\ \A i \in 1 .. n : db'.paymentItems[before + i].payment_id = header.id

WriteSteps == {"begin", "insert_header", "insert_item", "commit"}

ReferentialIntegrity ==
    \A row \in Range(db.paymentItems) :
        \E header \in Range(db.payments) : header.id = row.payment_id

CreatedComplete ==
    (call.op = "create_payment" /\ ret.ok)
        => Len(items_of(db, ret.val.id)) = Len(call.payload.items)

C1_Step ==
    /\ RowsUnchanged \/ WholePaymentAdded
    /\ (call'.op = "create_payment" /\ call'.fault.at \in WriteSteps) => RowsUnchanged

\* C1: create_payment is all-or-nothing. Every step either leaves the rows of
\* payments and payment_items as they were or adds one header with one item
\* row per payload item; a call struck by a failure at the header insert, an
\* item insert or the commit leaves them as they were; in every state each
\* item row references an existing payment and a created payment has as
\* many items as its payload.
C1_AllOrNothing ==
    [][C1_Step]_vars /\ [](ReferentialIntegrity /\ CreatedComplete)

\* C1 witness: the insert of the second item failed, after the header and the
\* first item had been inserted, and the tables hold no row.
C1_Witness ==
    /\ call.op = "create_payment"
    /\ call.fault = Fault("insert_item", 2)
    /\ Len(call.payload.items) = 2
    /\ db.payments = <<>>
    /\ db.paymentItems = <<>>
    /\ ensured

PayloadRejectable(payload) ==
    \/ ExpectedItemError(payload.items) # ""
    \/ IsBlank(payload.invoice_number)
    \/ IsBlank(payload.cashier_name)

ValidationMessages ==
    Range(RuleMessages)
    \cup {"Payment must contain at least one item", "Invoice number is required",
          "Cashier name is required"}

C2_Step ==
    /\ (call'.op = "create_payment" /\ PayloadRejectable(call'.payload))
            => (RowsUnchanged /\ ~ret'.ok)
    /\ (call'.op = "create_payment" /\ ret'.err \in ValidationMessages) => RowsUnchanged

\* C2: a create_payment whose payload has an empty item list, an item
\* violating a rule of the validator at any position, or a blank invoice
\* number or cashier name returns an error and leaves the rows of payments
\* and payment_items exactly as they were.
C2_RejectedWritesNothing == [][C2_Step]_vars

\* C2 witness: a payload whose second item is the invalid one was rejected
\* with that item's error, on a database that holds an earlier payment.
C2_Witness ==
    /\ call.op = "create_payment"
    /\ Len(call.payload.items) = 2
    /\ ViolatedRules(call.payload.items[1]) = {}
    /\ ViolatedRules(call.payload.items[2]) # {}
    /\ ret.err = "Line discount cannot be negative"
    /\ Len(db.payments) = 1
    /\ Len(db.paymentItems) = 2
    /\ origin = EmptyDb

HeaderBlank(payload) == IsBlank(payload.invoice_number) \/ IsBlank(payload.cashier_name)

MissingFieldError(payload) ==
    IF IsBlank(payload.invoice_number) THEN "Invoice number is required"
    ELSE "Cashier name is required"

\* C3 as stated: a create_payment that no storage failure struck and whose
\* invoice number or cashier name is blank returns the missing-field error,
\* whatever its item list.
C3_HeaderCheckedFirst ==
    (call.op = "create_payment" /\ call.fault = NoFault /\ HeaderBlank(call.payload))
        => ret = Err(MissingFieldError(call.payload))

\* C3 amended: the item validator runs before the header checks. Such a call
\* returns the validator's error when the item list is empty or has an invalid
\* item, and the missing-field error (invoice number first) only when the
\* item list is valid.
C3_ItemsCheckedFirst ==
    (call.op = "create_payment" /\ call.fault = NoFault /\ HeaderBlank(call.payload))
        => ret = Err(IF ExpectedItemError(call.payload.items) # ""
                     THEN ExpectedItemError(call.payload.items)
                     ELSE MissingFieldError(call.payload))

\* C3 witness: blank invoice number and empty item list: the empty-list error.
C3_Witness ==
    /\ call.op = "create_payment"
    /\ call.fault = NoFault
    /\ IsBlank(call.payload.invoice_number)
    /\ call.payload.items = <<>>
    /\ ret = Err("Payment must contain at least one item")

\* C4: normalize_payment_items returns the empty-list error for an empty
\* list, else the error of the earliest violated rule (quantity, name, base
\* price, effective price, line subtotal, line discount) of the first item
\* violating any rule, and Ok exactly when no item violates one.
C4_FailFastOrder ==
    (call.op = "normalize_payment_items" /\ ret # Pending)
        => /\ ret.err = ExpectedItemError(call.payload.items)
           /\ ret.ok <=> ExpectedItemError(call.payload.items) = ""
           /\ ret.ok => Len(ret.val) = Len(call.payload.items)

\* C4 witness: a two-item list whose first item is valid and whose second
\* violates two rules was rejected with the earlier of the two.
C4_Witness ==
    /\ call.op = "normalize_payment_items"
    /\ Len(call.payload.items) = 2
    /\ ViolatedRules(call.payload.items[1]) = {}
    /\ ViolatedRules(call.payload.items[2]) = {5, 6}
    /\ ret = Err("Line subtotal cannot be negative")

\* The record of payment `id` in a listing.
ListedItemsOf(listing, id) ==
    LET at == CHOOSE i \in DOMAIN listing : listing[i].id = id
    IN  listing[at].items

\* C5: a payment_items row whose quantity_decimal, base_unit_price,
\* line_subtotal and line_discount are NULL is read as the same
\* PaymentItemRecord (up to the row's own id) as the row with the same legacy
\* quantity q and price p that stores quantity_decimal = q, base_unit_price =
\* p, line_subtotal = max(0, p * q) and line_discount = 0.
C5_LegacyReadsAsPopulated ==
    (call.op = "list_payments" /\ ret.ok)
        => /\ Len(ret.val) = 2
           /\ Len(ListedItemsOf(ret.val, 1)) = 1
           /\ Len(ListedItemsOf(ret.val, 2)) = 1
           /\ [ListedItemsOf(ret.val, 1)[1] EXCEPT !.id = 0]
                = [ListedItemsOf(ret.val, 2)[1] EXCEPT !.id = 0]

\* C5 witness: the pair with q = 3 and p = 5 was listed, the legacy row still
\* storing no optional column and read with the subtotal 15.
C5_Witness ==
    /\ call.op = "list_payments"
    /\ ret.ok
    /\ db.paymentItems[1].quantity = 3
    /\ db.paymentItems[1].price = 5
    /\ ~db.paymentItems[1].line_subtotal.some
    /\ ~db.paymentItems[1].quantity_decimal.some
    /\ db.paymentItems[2].line_subtotal = Some(15)
    /\ ListedItemsOf(ret.val, 1)[1].line_subtotal = 15
    /\ ListedItemsOf(ret.val, 1)[1].quantity_decimal = Some(F(3, 1))

SchemaComplete(d) ==
    /\ d.tables = {"products", "payments", "payment_items", "cashiers"}
    /\ d.itemCols = {"quantity_decimal", "base_unit_price", "edited_unit_price",
                     "line_subtotal", "line_discount"}

C6_Step ==
    /\ db'.payments = db.payments
    /\ db'.paymentItems = db.paymentItems
    /\ db'.products = db.products
    /\ db.tables \subseteq db'.tables
    /\ db.itemCols \subseteq db'.itemCols
    /\ IsPrefix(db.cashiers, db'.cashiers)
    /\ ensured => (db' = db /\ (call'.fault = NoFault => ret'.ok))

\* C6: the schema ensure is additive and idempotent. From every database file
\* a call keeps every row and every table and column that exists; once a call
\* of open_connection has returned Ok the four tables and the five optional
\* columns exist, and every later call changes nothing in the database and,
\* struck by no storage failure, returns no error.
C6_EnsureIdempotent ==
    [][C6_Step]_vars /\ [](ensured => SchemaComplete(db))

\* C6 witness: on a file whose payment_items lacked four of the optional
\* columns and held rows, a second call returned Ok: the rows are the original
\* ones and the seed is there once.
C6_Witness ==
    /\ call.again
    /\ call.fault = NoFault
    /\ ret.ok
    /\ origin = LegacyDb({"base_unit_price"}, TRUE, FALSE)
    /\ db.paymentItems = origin.paymentItems
    /\ Len(db.cashiers) = 4
    /\ SchemaComplete(db)

\* C7 as stated: once a call of open_connection has returned Ok, whatever
\* calls failed before it, the database is the one a single uninterrupted
\* call would have made of the original file.
C7_RetryConverges ==
    ensured => db = initialize_schema(origin, NoFault).db

\* C8: round_money as built (the mode constant is "floor") returns floor(x)
\* for x >= 0 and 0 for x < 0, never a negative value; with the constant set
\* to "round" the same function returns a nearest integer of x, or 0 when that
\* is negative.
C8_RoundMoney ==
    ret.ok /\ call.op = "round_money"
        => LET x == call.value
               r == ret.val
           IN  /\ call.mode \in {"floor", "round"}
               /\ r >= 0
               /\ call.mode = "floor"
                    => /\ x.num >= 0 => (r * x.den <= x.num /\ x.num < (r + 1) * x.den)
                       /\ x.num < 0 => r = 0
               /\ call.mode = "round"
                    => \E k \in (0 - MaxNumerator - 1) .. (MaxNumerator + 1) :
                          /\ 2 * (k * x.den - x.num) <= x.den
                          /\ 2 * (x.num - k * x.den) <= x.den
                          /\ r = IF k < 0 THEN 0 ELSE k

\* C8 witness: 7/2 was floored to 3 by the function as built.
C8_Witness ==
    /\ call.op = "round_money"
    /\ call.mode = "floor"
    /\ call.value = F(7, 2)
    /\ ret = Ok(3)

\* C9: the rows stored by a create_payment that returned Ok are one per item
\* of the payload, in order; each stores as price the explicit
\* effectiveUnitPrice, else the explicit price, else baseUnitPrice, and as line
\* subtotal the explicit lineSubtotal, else max(0, floor(price * quantity));
\* the record returned carries the same. The example payload is stored as
\* exactly one row with price 50, subtotal 100, quantity 2 and decimal
\* quantity 2.0.
C9_PricePrecedence ==
    (call.op = "create_payment" /\ ret.ok)
        => LET rows == items_of(db, ret.val.id)
               items == call.payload.items
           IN  /\ Len(rows) = Len(items)
               /\ Len(ret.val.items) = Len(items)
               /\ \A i \in DOMAIN items :
                    /\ rows[i].price = ResolvedPrice(items[i])
                    /\ rows[i].line_subtotal = Some(LineSubtotalOf(items[i]))
                    /\ ret.val.items[i].effective_unit_price = ResolvedPrice(items[i])
                    /\ ret.val.items[i].line_subtotal = LineSubtotalOf(items[i])
               /\ call.payload = ExamplePayload
                    => /\ Len(rows) = 1
                       /\ rows[1].price = 50
                       /\ rows[1].line_subtotal = Some(100)
                       /\ rows[1].quantity = 2
                       /\ rows[1].quantity_decimal = Some(F(2, 1))

\* C9 witness: the example payload was stored, and so was an item giving
\* effectiveUnitPrice 7, price 9 and baseUnitPrice 50, at price 7.
C9_Witness ==
    /\ call.op = "create_payment"
    /\ ret.ok
    /\ call.payload.items = <<OverrideItem, PriceOnlyItem>>
    /\ items_of(db, ret.val.id)[1].price = 7
    /\ items_of(db, ret.val.id)[2].price = 9
    /\ items_of(db, ret.val.id)[2].line_subtotal = Some(22)
    /\ \E row \in Range(db.paymentItems) : row.name = Coffee /\ row.price = 50

\* C10 as stated: on a database whose payments all come from create_payment
\* calls, list_payments returns min(n, 200) payments, n the number of
\* committed payments, each with all its item rows, and a payment created
\* later (a later row of payments) never appears after one created earlier.
C10_NewestFirst ==
    (call.op = "list_payments" /\ ret.ok /\ origin.payments = <<>>)
        => /\ Len(ret.val) = (IF Len(db.payments) < 200 THEN Len(db.payments) ELSE 200)
           /\ \A i \in DOMAIN ret.val :
                Len(ret.val[i].items) = Len(items_of(db, ret.val[i].id))
           /\ \A i, j \in DOMAIN ret.val : i < j => ret.val[i].id > ret.val[j].id

-----------------------------------------------------------------------------
\* The header row of payment `id`, and its item rows in rowid order.
HeaderRowOf(d, id) == CHOOSE row \in Range(d.payments) : row.id = id

ItemRowsOf(d, id) == SelectSeq(d.paymentItems, LAMBDA row : row.payment_id = id)

\* A returned item is the stored row: every column as stored (the optional
\* ones are all stored by create_payment).
ItemIsRow(item, row) ==
    /\ item.id = row.id
    /\ item.product_id = row.product_id
    /\ item.name = row.name
    /\ item.quantity = row.quantity
    /\ item.price = row.price
    /\ item.effective_unit_price = row.price
    /\ item.quantity_decimal = row.quantity_decimal
    /\ Some(item.base_unit_price) = row.base_unit_price
    /\ item.edited_unit_price = row.edited_unit_price
    /\ Some(item.line_subtotal) = row.line_subtotal
    /\ Some(item.line_discount) = row.line_discount

\* A returned record is what the tables hold for its id.
RecordIsPersisted(record, d) ==
    LET rows == ItemRowsOf(d, record.id)
    IN  /\ \E row \in Range(d.payments) : row.id = record.id
        /\ [f \in DOMAIN record \ {"items"} |-> record[f]] = HeaderRowOf(d, record.id)
        /\ Len(record.items) = Len(rows)
        /\ \A i \in DOMAIN rows : ItemIsRow(record.items[i], rows[i])

\* The note as stored: absent when not given or blank, else without the
\* surrounding whitespace.
ExpectedNote(note) ==
    IF note.some /\ ~IsBlank(note.v) THEN Some(trim(note.v)) ELSE NoneStr

\* No whitespace at either end.
IsTrimmed(s) == s = <<>> \/ (~IsWhitespace(s[1]) /\ ~IsWhitespace(s[Len(s)]))

\* The record create_payment returned answers the payload: the header
\* fields, and one item per payload item in the payload's order with
\* ascending row ids.
RecordAnswersPayload(record, payload) ==
    /\ record.invoice_number = trim(payload.invoice_number)
    /\ IsTrimmed(record.invoice_number)
    /\ record.cashier_name = trim(payload.cashier_name)
    /\ IsTrimmed(record.cashier_name)
    /\ record.note = ExpectedNote(payload.note)
    /\ record.note.some => (IsTrimmed(record.note.v) /\ record.note.v # <<>>)
    /\ Len(record.items) = Len(payload.items)
    /\ \A i \in DOMAIN payload.items :
          /\ record.items[i].name = trim(payload.items[i].name)
          /\ record.items[i].quantity_decimal = Some(payload.items[i].quantity)
          /\ record.items[i].base_unit_price = payload.items[i].base_unit_price
          /\ record.items[i].product_id = payload.items[i].product_id
    /\ \A i, j \in DOMAIN record.items : i < j => record.items[i].id < record.items[j].id

\* C11: the PaymentRecord a successful create_payment returns is what was
\* persisted. It equals the header row and the item rows the tables hold for
\* its id; its header carries the trimmed invoice number and cashier name
\* and the normalized note; its items are one per payload item, in the
\* payload's order, with ascending row ids; and every later successful
\* list_payments lists, for the id of a record create_payment returned,
\* exactly that record.
C11_ReturnedIsPersisted ==
    /\ (call.op = "create_payment" /\ ret.ok)
            => /\ RecordIsPersisted(ret.val, db)
               /\ RecordAnswersPayload(ret.val, call.payload)
               /\ ret.val \in returned
    /\ (call.op = "list_payments" /\ ret.ok)
            => \A i \in DOMAIN ret.val :
                  \A record \in returned :
                     record.id = ret.val[i].id => ret.val[i] = record

\* C11 witness: list_payments succeeded after two payments were created and
\* returned, one of them from a payload with padded header fields, a blank
\* note and two different items.
C11_Witness ==
    /\ call.op = "list_payments"
    /\ ret.ok
    /\ Len(ret.val) = 2
    /\ Cardinality(returned) = 2
    /\ \E record \in returned :
          /\ Len(record.items) = 2
          /\ record.items[1].name # record.items[2].name
          /\ record.note = NoneStr
          /\ record.invoice_number = INV1
          /\ \E i \in DOMAIN ret.val : ret.val[i] = record

-----------------------------------------------------------------------------
\* The payment `id` as the read side returns it from database d.
ReadBack(d, id) == load_payment_by_id(d, id, NoFault)

\* A step keeps every payment the tables hold: its header row at its place,
\* its item rows, and the record read back for its id.
C12_Step ==
    /\ IsPrefix(db.payments, db'.payments)
    /\ \A row \in Range(db.payments) :
          /\ ItemRowsOf(db', row.id) = ItemRowsOf(db, row.id)
          /\ ReadBack(db', row.id) = ReadBack(db, row.id)
          /\ ReadBack(db, row.id).ok

\* C12: payments are append-only. No step of create_payment, list_payments,
\* list_products, create_product, update_product or list_cashiers, with the
\* schema ensure each runs and under storage failures, changes or removes
\* the header row or an item row of a payment the tables hold, or changes
\* the record read back for its id; in every state the payments the
\* application was started on read back as they did at the start.
C12_AppendOnly ==
    /\ [][C12_Step]_vars
    /\ [](\A row \in Range(origin.payments) : ReadBack(db, row.id) = ReadBack(origin, row.id))

\* C12 witness: after a payment was created on a database that held an older
\* one, the missing columns were added, a product was created and then
\* updated.
C12_Witness ==
    /\ call.op = "update_product"
    /\ ret.ok
    /\ ret.val.price = 35
    /\ Len(db.payments) = 2
    /\ Len(db.paymentItems) > Len(origin.paymentItems)
    /\ origin.itemCols # db.itemCols

-----------------------------------------------------------------------------
\* The integer nearest to the positive quantity x, the upper one of two
\* equally near.
NearestInteger(x) ==
    CHOOSE n \in 0 .. (x.num \div x.den) + 1 :
        /\ 2 * (n * x.den - x.num) <= x.den
        /\ 2 * (x.num - n * x.den) < x.den

\* What the row keeps of the editedUnitPrice of the input.
ExpectedEditedPrice(item) ==
    IF item.edited_unit_price.some /\ item.edited_unit_price.v >= 0
    THEN item.edited_unit_price
    ELSE NoneInt

StoredRowInvariants(row) ==
    /\ row.quantity_decimal.some
    /\ row.quantity_decimal.v.cls = "finite"
    /\ row.quantity_decimal.v.num > 0
    /\ row.quantity_decimal.v.den > 0
    /\ row.base_unit_price.some /\ row.base_unit_price.v >= 0
    /\ row.price >= 0
    /\ row.line_subtotal.some /\ row.line_subtotal.v >= 0
    /\ row.line_discount.some /\ row.line_discount.v >= 0
    /\ row.edited_unit_price.some => row.edited_unit_price.v >= 0
    /\ row.quantity = IF NearestInteger(row.quantity_decimal.v) >= 1
                      THEN NearestInteger(row.quantity_decimal.v)
                      ELSE 1
    /\ row.quantity >= 1

\* C13: every payment_items row create_payment has written holds a decimal
\* quantity > 0, a base unit price, a stored price, a line subtotal and a
\* line discount >= 0, an edited unit price that is absent or >= 0, and a
\* legacy quantity that is round(decimal quantity) when that is >= 1 and 1
\* otherwise; a negative editedUnitPrice of the input is stored as absent,
\* a non-negative one as given, and neither causes a rejection: an item
\* that violates no rule of the validator is stored.
C13_StoredRowInvariants ==
    /\ \A row \in Range(db.paymentItems) : StoredRowInvariants(row)
    /\ (call.op = "create_payment" /\ ExpectedItemError(call.payload.items) = "")
            => /\ ret.ok
               /\ Len(db.paymentItems) = 1
               /\ db.paymentItems[1].edited_unit_price
                      = ExpectedEditedPrice(call.payload.items[1])
    /\ (call.op = "create_payment" /\ ExpectedItemError(call.payload.items) # "")
            => db.paymentItems = <<>>

\* C13 witness: an item of quantity 0.25 with editedUnitPrice -1 was stored,
\* with legacy quantity 1 and no edited unit price.
C13_Witness ==
    /\ call.op = "create_payment"
    /\ ret.ok
    /\ call.payload.items[1].quantity = F(1, 4)
    /\ call.payload.items[1].edited_unit_price = Some(-1)
    /\ db.paymentItems[1].quantity = 1
    /\ db.paymentItems[1].quantity_decimal = Some(F(1, 4))
    /\ db.paymentItems[1].edited_unit_price = NoneInt

-----------------------------------------------------------------------------
C14_Step == (call'.op = "create_payment" /\ ~ret'.ok) => RowsUnchanged

\* C14 as stated: create_payment returns an error only when nothing of the
\* call is stored. Whatever storage failure strikes it (at opening the
\* connection and ensuring the schema, the header insert, an item insert,
\* the commit, or the read of the record after the commit), a call that
\* returns an error leaves the rows of payments and payment_items exactly
\* as they were before it.
C14_ErrorMeansNothingStored == [][C14_Step]_vars

====
